---- MODULE Spec2Model ----
(***************************************************************************)
(* Function-based components of tfx/components/base/decorators.py:         *)
(*   - _FunctionExecutor.Do, the adapter that rebuilds the argument list   *)
(*     of the wrapped function from the artifact dictionaries, calls it    *)
(*     and stores the returned dict into the output artifacts;             *)
(*   - component(func), which checks the definition scope, parses the     *)
(*     type hints, builds the executor class and exposes it in the         *)
(*     function's module;                                                  *)
(*   - the injector -> simple_component -> verify pipeline of              *)
(*     decorators_test.py.                                                 *)
(***************************************************************************)
EXTENDS Integers, Sequences, FiniteSets, TLC

VARIABLES
  \* ---- one call of _FunctionExecutor.Do --------------------------------
  exec,           \* the executor class: _ARG_FORMATS, _FUNCTION, _RETURNED_VALUES
  input_dict,     \* Dict[Text, List[Artifact]]
  output_dict,    \* Dict[Text, List[Artifact]]
  function_args,  \* the list Do builds
  outputs,        \* what self._FUNCTION returned
  pc,             \* where Do is: "idle", "call", "returned", "done", "raised"
  raised,         \* the exception that escaped Do (NoError when none)
  warnings,       \* absl.logging.warning records, in order
  calls,          \* the calls of self._FUNCTION made by this Do: arguments and outcome
  pre,            \* the dictionaries and the class as they were when Do was entered
  invocations,    \* number of Do calls started
  \* ---- the pipeline of decorators_test.py -----------------------------
  wiring,         \* which upstream output feeds each downstream input
  stage,          \* number of pipeline components that completed
  store,          \* the published output artifacts of each completed component
  \* ---- component(func) ------------------------------------------------
  modules,        \* sys.modules: module name -> attribute name -> object
  cpc,            \* per caller: where component() is
  cfunc,          \* per caller: the func argument
  cclass,         \* per caller: the executor_class local
  cresult,        \* per caller: the returned component class (NoClass when none)
  cerror,         \* per caller: the exception that escaped component()
  regLog,         \* the setattr calls on modules, in order
  nextClass       \* number of classes created by type() so far

doVars == <<exec, input_dict, output_dict, function_args, outputs, pc, raised,
            warnings, calls, pre, invocations>>
chainVars == <<wiring, stage, store>>
compileVars == <<modules, cpc, cfunc, cclass, cresult, cerror, regLog, nextClass>>
vars == <<doVars, chainVars, compileVars>>

Range(s) == {s[i] : i \in DOMAIN s}

(***************************************************************************)
(* Python values.  A value is a record [t, v]: its type and its payload.   *)
(***************************************************************************)
PyNone == [t |-> "NoneType", v |-> <<>>]
PyInt(n) == [t |-> "int", v |-> n]
PyFloat(n) == [t |-> "float", v |-> n]
PyStr(s) == [t |-> "str", v |-> s]
PyBytes(s) == [t |-> "bytes", v |-> s]
PyBool(b) == [t |-> "bool", v |-> b]
PyList(s) == [t |-> "list", v |-> s]
PyDict(f) == [t |-> "dict", v |-> f]
PyTuple(s) == [t |-> "tuple", v |-> s]

\* bool(x): the truth value Python's `or` tests.
Truthy(x) ==
  CASE x.t = "NoneType" -> FALSE
    [] x.t = "int" -> x.v # 0
    [] x.t = "float" -> x.v # 0
    [] x.t = "bool" -> x.v
    [] x.t = "str" -> x.v # ""
    [] x.t = "bytes" -> x.v # ""
    [] x.t = "list" -> x.v # <<>>
    [] x.t = "tuple" -> x.v # <<>>
    [] x.t = "dict" -> DOMAIN x.v # {}
    [] OTHER -> TRUE

\* isinstance(x, dict)
IsDict(x) == x.t = "dict"

(***************************************************************************)
(* Artifacts: an object with an identity, a uri and a value slot.          *)
(***************************************************************************)
Artifact(side, name, i, value) ==
  [t |-> "Artifact", id |-> <<side, name, i>>,
   uri |-> PyStr(side \o "/" \o name \o "/" \o ToString(i)), value |-> value]

(***************************************************************************)
(* ArgFormats of function_parser, as decorators.py uses them.              *)
(***************************************************************************)
INPUT_ARTIFACT == "INPUT_ARTIFACT"
INPUT_URI == "INPUT_URI"
OUTPUT_ARTIFACT == "OUTPUT_ARTIFACT"
OUTPUT_URI == "OUTPUT_URI"
ARTIFACT_VALUE == "ARTIFACT_VALUE"
ArgFormats == {INPUT_ARTIFACT, INPUT_URI, OUTPUT_ARTIFACT, OUTPUT_URI, ARTIFACT_VALUE}

(***************************************************************************)
(* _FunctionExecutor.Do                                                    *)
(***************************************************************************)
\* Exceptions: the type and the argument.  NoError stands for "nothing raised".
Exc(type, arg) == [type |-> type, arg |-> arg]
NoError == Exc("", PyNone)

\* d[name][-1] in place of d[name][0].
LastArtifact(d, name) ==
  IF name \notin DOMAIN d THEN [err |-> Exc("KeyError", PyStr(name)), val |-> PyNone]
  ELSE IF d[name] = <<>> THEN [err |-> Exc("IndexError", PyStr("list index out of range")), val |-> PyNone]
  ELSE [err |-> NoError, val |-> d[name][Len(d[name])]]

\* d[name][0]: KeyError when the key is missing, IndexError on an empty list.
\* Python's index 0 is the first element, s[1] here.
FirstArtifact(d, name) ==
  IF name \notin DOMAIN d THEN [err |-> Exc("KeyError", PyStr(name)), val |-> PyNone]
  ELSE IF d[name] = <<>> THEN [err |-> Exc("IndexError", PyStr("list index out of range")), val |-> PyNone]
  ELSE [err |-> NoError, val |-> d[name][1]]

\* The loop body with `.value` forgotten on line 64.
ResolveArgNoValue(name, arg_format, ind, outd) ==
  CASE arg_format \in {INPUT_ARTIFACT, INPUT_URI, ARTIFACT_VALUE} -> FirstArtifact(ind, name)
    [] arg_format \in {OUTPUT_ARTIFACT, OUTPUT_URI} -> FirstArtifact(outd, name)
    [] OTHER -> [err |-> Exc("ValueError", PyStr(arg_format)), val |-> PyNone]

\* One pass of the loop body of lines 54-66: the argument for (name, arg_format).
ResolveArg(name, arg_format, ind, outd) ==
  CASE arg_format = INPUT_ARTIFACT -> FirstArtifact(ind, name)
    [] arg_format = INPUT_URI ->
         LET a == FirstArtifact(ind, name)
         IN IF a.err # NoError THEN a ELSE [err |-> NoError, val |-> a.val.uri]
    [] arg_format = OUTPUT_ARTIFACT -> FirstArtifact(outd, name)
    [] arg_format = OUTPUT_URI ->
         LET a == FirstArtifact(outd, name)
         IN IF a.err # NoError THEN a ELSE [err |-> NoError, val |-> a.val.uri]
    [] arg_format = ARTIFACT_VALUE ->
         LET a == FirstArtifact(ind, name)
         IN IF a.err # NoError THEN a ELSE [err |-> NoError, val |-> a.val.value]
    [] OTHER -> [err |-> Exc("ValueError", PyStr(arg_format)), val |-> PyNone]

\* The loop of lines 53-66 from position i, args being function_args so far.
RECURSIVE ResolveArgs(_, _, _, _, _)
ResolveArgs(formats, i, args, ind, outd) ==
  IF i > Len(formats) THEN [err |-> NoError, args |-> args]
  ELSE LET r == ResolveArg(formats[i][1], formats[i][2], ind, outd)
       IN IF r.err # NoError THEN [err |-> r.err, args |-> args]
          ELSE ResolveArgs(formats, i + 1, Append(args, r.val), ind, outd)

\* Line 70: outputs = outputs or {}
OrEmptyDict(ret) == IF Truthy(ret) THEN ret ELSE PyDict(<<>>)

NotADictWarning(got) == [kind |-> "not_a_dict", arg |-> got]
MissingOutputWarning(name) == [kind |-> "missing_output", arg |-> PyStr(name)]

\* The value stored into every artifact of output_dict[name].
SetValueAll(outd, name, value) ==
  IF name \notin DOMAIN outd THEN [err |-> Exc("KeyError", PyStr(name)), outd |-> outd]
  ELSE IF outd[name] = <<>> THEN [err |-> Exc("IndexError", PyStr("list index out of range")), outd |-> outd]
  ELSE [err |-> NoError,
        outd |-> [outd EXCEPT ![name] = [i \in DOMAIN outd[name] |-> [outd[name][i] EXCEPT !.value = value]]]]

\* Line 84: output_dict[name][0].value = value
SetValue(outd, name, value) ==
  IF name \notin DOMAIN outd THEN [err |-> Exc("KeyError", PyStr(name)), outd |-> outd]
  ELSE IF outd[name] = <<>> THEN [err |-> Exc("IndexError", PyStr("list index out of range")), outd |-> outd]
  ELSE [err |-> NoError, outd |-> [outd EXCEPT ![name][1].value = value]]

\* The loop of lines 78-84 with `break` in place of `continue`.
RECURSIVE AssignReturnedBreak(_, _, _, _, _)
AssignReturnedBreak(names, i, outs, outd, warns) ==
  IF i > Len(names) THEN [err |-> NoError, outd |-> outd, warns |-> warns]
  ELSE IF names[i] \notin DOMAIN outs.v
       THEN [err |-> NoError, outd |-> outd,
             warns |-> Append(warns, MissingOutputWarning(names[i]))]
       ELSE LET w == SetValue(outd, names[i], outs.v[names[i]])
            IN IF w.err # NoError
               THEN [err |-> w.err, outd |-> w.outd, warns |-> warns]
               ELSE AssignReturnedBreak(names, i + 1, outs, w.outd, warns)

\* The loop of lines 78-84 from position i of _RETURNED_VALUES.
RECURSIVE AssignReturned(_, _, _, _, _)
AssignReturned(names, i, outs, outd, warns) ==
  IF i > Len(names) THEN [err |-> NoError, outd |-> outd, warns |-> warns]
  ELSE IF names[i] \notin DOMAIN outs.v
       THEN AssignReturned(names, i + 1, outs, outd,
                           Append(warns, MissingOutputWarning(names[i])))
       ELSE LET w == SetValue(outd, names[i], outs.v[names[i]])
            IN IF w.err # NoError
               THEN [err |-> w.err, outd |-> w.outd, warns |-> warns]
               ELSE AssignReturned(names, i + 1, outs, w.outd, warns)

\* Lines 70-84 without the `return` of line 75: `name not in outputs` on a
\* number is a TypeError.
AfterCallNoReturn(ret, names, outd, warns) ==
  LET outs == OrEmptyDict(ret)
  IN IF ~IsDict(outs)
     THEN [err |-> IF names # <<>> /\ outs.t \in {"int", "bool", "float"}
                   THEN Exc("TypeError", PyStr("not iterable")) ELSE NoError,
           outd |-> outd, warns |-> Append(warns, NotADictWarning(outs))]
     ELSE AssignReturned(names, 1, outs, outd, warns)

\* Lines 70-84: what Do does with the value the function returned.
AfterCall(ret, names, outd, warns) ==
  LET outs == OrEmptyDict(ret)
  IN IF ~IsDict(outs)
     THEN [err |-> NoError, outd |-> outd, warns |-> Append(warns, NotADictWarning(outs))]
     ELSE AssignReturned(names, 1, outs, outd, warns)

(***************************************************************************)
(* The wrapped functions.  An outcome is a returned value or an exception. *)
(***************************************************************************)
Returns(val) == [exc |-> NoError, ret |-> val]
Raises(e) == [exc |-> e, ret |-> PyNone]

\* decorators_test.py, injector
injector(args) ==
  Returns(PyDict([k \in {"a", "b", "c", "d"} |->
    CASE k = "a" -> PyInt(10)
      [] k = "b" -> PyInt(22)
      [] k = "c" -> PyStr("unicode")
      [] OTHER -> PyBytes("bytes")]))

\* decorators_test.py, simple_component(a, b, c, d)
\* (+ and * on anything but two numbers end in a TypeError or ValueError)
simple_component(args) ==
  LET a == args[1]
      b == args[2]
  IN IF a.t \in {"int", "float"} /\ b.t \in {"int", "float"}
     THEN Returns(PyDict([k \in {"e", "f"} |->
            IF k = "e" THEN PyFloat(a.v + b.v) ELSE PyFloat(a.v * b.v)]))
     ELSE Raises(Exc("TypeError", PyStr("unsupported operand type(s)")))

\* == on numbers compares int and float by value.
NumEq(x, y) == x.t \in {"int", "float"} /\ y.t \in {"int", "float"} /\ x.v = y.v

\* decorators_test.py, verify(e, f)
verify(args) ==
  LET e == args[1]
      f == args[2]
  IN IF NumEq(e, PyFloat(32)) /\ NumEq(f, PyFloat(220))
     THEN Returns(PyNone)
     ELSE Raises(Exc("AssertionError", PyTuple(<<e, f>>)))

\* A function whose body is not known: what it may return or raise.
StubKeys == {"e", "f"}
StubValue(k) == IF k = "e" THEN PyInt(1) ELSE PyInt(2)
StubReturns ==
  {PyNone, PyInt(0), PyInt(7), PyStr(""), PyStr("s"), PyList(<<>>), PyList(<<1>>),
   PyBool(FALSE), PyBool(TRUE)}
  \cup {PyDict([k \in K |-> StubValue(k)]) : K \in SUBSET StubKeys}
StubError == Exc("RuntimeError", PyStr("boom"))
StubOutcomes == {Returns(r) : r \in StubReturns} \cup {Raises(StubError)}

\* self._FUNCTION(*function_args)
FunctionOutcomes(fn, args) ==
  CASE fn = "injector" -> {injector(args)}
    [] fn = "simple_component" -> {simple_component(args)}
    [] fn = "verify" -> {verify(args)}
    [] OTHER -> StubOutcomes

(***************************************************************************)
(* Do, step by step.  The call of the wrapped function is the one place    *)
(* where control leaves Do, so Do is cut before and after it.              *)
(***************************************************************************)
\* Do of class cls is entered with (ind, outd); lines 53-66 build function_args.
DoEnter(cls, ind, outd) ==
  LET r == ResolveArgs(cls.ARG_FORMATS, 1, <<>>, ind, outd)
  IN /\ exec' = cls
     /\ input_dict' = ind
     /\ output_dict' = outd
     /\ function_args' = r.args
     /\ outputs' = PyNone
     /\ warnings' = <<>>
     /\ calls' = <<>>
     /\ pre' = [input_dict |-> ind, output_dict |-> outd, exec |-> cls]
     /\ invocations' = invocations + 1
     /\ raised' = r.err
     /\ pc' = IF r.err = NoError THEN "call" ELSE "raised"

\* Line 69 inside try/except: the exception is logged and Do goes on.
CallResultCaught(outcome) ==
  [pc |-> "returned", raised |-> NoError, outputs |-> outcome.ret,
   warned |-> IF outcome.exc = NoError THEN <<>>
              ELSE <<[kind |-> "exception", arg |-> outcome.exc.arg]>>]

\* Line 69: outputs = self._FUNCTION(*function_args); an exception is not caught.
CallResult(outcome) ==
  [pc |-> IF outcome.exc = NoError THEN "returned" ELSE "raised",
   raised |-> outcome.exc, outputs |-> outcome.ret, warned |-> <<>>]

DoCall ==
  /\ pc = "call"
  /\ \E outcome \in FunctionOutcomes(exec.FUNCTION, function_args) :
       LET r == CallResult(outcome)
       IN /\ calls' = Append(calls, [args |-> function_args, outcome |-> outcome])
          /\ outputs' = r.outputs
          /\ raised' = r.raised
          /\ pc' = r.pc
          /\ warnings' = warnings \o r.warned
  /\ UNCHANGED <<exec, input_dict, output_dict, function_args, pre, invocations>>
  /\ UNCHANGED <<chainVars, compileVars>>

\* Lines 70-84.
DoFinish ==
  /\ pc = "returned"
  /\ LET r == AfterCall(outputs, exec.RETURNED_VALUES, output_dict, warnings)
     IN /\ output_dict' = r.outd
        /\ warnings' = r.warns
        /\ raised' = r.err
        /\ pc' = IF r.err = NoError THEN "done" ELSE "raised"
  /\ UNCHANGED <<exec, input_dict, function_args, outputs, calls, pre, invocations>>
  /\ UNCHANGED <<chainVars, compileVars>>

(***************************************************************************)
(* The executor classes and artifact dictionaries Do is exercised with.    *)
(***************************************************************************)
MaxArgs == 2          \* longest _ARG_FORMATS
MaxListLen == 2       \* most artifacts under one name
MaxInvocations == 2   \* Do calls in one run of the backend

InputNames == {"a", "b"}
OutputNames == {"e", "f"}
UNKNOWN_FORMAT == "UNKNOWN"

\* (name, arg_format) pairs: the parser puts input formats on inputs and
\* output formats on outputs; one pair carries a format Do does not know.
ArgPairs ==
  (InputNames \X {INPUT_ARTIFACT, INPUT_URI, ARTIFACT_VALUE})
  \cup (OutputNames \X {OUTPUT_ARTIFACT, OUTPUT_URI})
  \cup {<<"a", UNKNOWN_FORMAT>>}

SeqsUpTo(S, n) == UNION {[1..k -> S] : k \in 0..n}
DistinctNames(s) == \A i, j \in DOMAIN s : i # j => s[i][1] # s[j][1]
Injective(s) == \A i, j \in DOMAIN s : i # j => s[i] # s[j]

ExecClass(formats, fn, returned) ==
  [ARG_FORMATS |-> formats, FUNCTION |-> fn, RETURNED_VALUES |-> returned]

StubClasses ==
  {ExecClass(fmts, "stub", rv) :
     fmts \in {s \in SeqsUpTo(ArgPairs, MaxArgs) : DistinctNames(s)},
     rv \in {s \in SeqsUpTo(OutputNames, Cardinality(OutputNames)) : Injective(s)}}

\* The dictionaries the backend hands to Do: n artifacts under every name,
\* or the same with the names "b" and "f" left out.
InputValue(name, i) == PyStr("value of " \o name \o "/" \o ToString(i))
InputDict(n, names) ==
  [k \in names |-> [i \in 1..n |-> Artifact("in", k, i, InputValue(k, i))]]
OutputDict(n, names) ==
  [k \in names |-> [i \in 1..n |-> Artifact("out", k, i, PyNone)]]
Dicts ==
  {[ind |-> InputDict(n, InputNames \ dropped), outd |-> OutputDict(n, OutputNames \ dropped)] :
     n \in 0..MaxListLen, dropped \in {{}, {"b", "f"}}}

NoClass == [id |-> 0]

DoInit ==
  /\ input_dict = <<>>
  /\ output_dict = <<>>
  /\ function_args = <<>>
  /\ outputs = PyNone
  /\ pc = "idle"
  /\ raised = NoError
  /\ warnings = <<>>
  /\ calls = <<>>
  /\ pre = [input_dict |-> <<>>, output_dict |-> <<>>, exec |-> exec]
  /\ invocations = 0

ChainIdle ==
  /\ wiring = <<>>
  /\ stage = 0
  /\ store = <<>>

CompileIdle ==
  /\ modules = <<>>
  /\ cpc = <<>>
  /\ cfunc = <<>>
  /\ cclass = <<>>
  /\ cresult = <<>>
  /\ cerror = <<>>
  /\ regLog = <<>>
  /\ nextClass = 0

\* The backend calls Do once per execution attempt: with fresh dictionaries,
\* or again with the ones of the attempt before.  An exception that escapes
\* Do ends the run.
Invoke ==
  /\ pc \in {"idle", "done"}
  /\ invocations < MaxInvocations
  /\ \E d \in Dicts \cup {[ind |-> input_dict, outd |-> output_dict]} :
       /\ (pc = "idle" => d \in Dicts)
       /\ DoEnter(exec, d.ind, d.outd)
  /\ UNCHANGED <<chainVars, compileVars>>

Init ==
  /\ exec \in StubClasses
  /\ DoInit
  /\ ChainIdle
  /\ CompileIdle

Next == Invoke \/ DoCall \/ DoFinish

Spec == Init /\ [][Next]_vars

(***************************************************************************)
(* The pipeline of decorators_test.py: injector -> simple_component ->     *)
(* verify, run in order by the backend.  Each component's Do gets the      *)
(* published output artifacts of the component before it as its inputs.    *)
(***************************************************************************)
\* The executor classes component() builds for the three test functions:
\* a primitive-typed parameter is passed by value, an OutputDict entry is a
\* returned value.
PipelineClasses ==
  <<ExecClass(<<>>, "injector", <<"a", "b", "c", "d">>),
    ExecClass(<<<<"a", ARTIFACT_VALUE>>, <<"b", ARTIFACT_VALUE>>,
                <<"c", ARTIFACT_VALUE>>, <<"d", ARTIFACT_VALUE>>>>,
              "simple_component", <<"e", "f">>),
    ExecClass(<<<<"e", ARTIFACT_VALUE>>, <<"f", ARTIFACT_VALUE>>>>, "verify", <<>>)>>

\* wiring[k][n]: the output of component k-1 that feeds input n of component k.
\* The test wires a, b, c, d and e, f straight, or e and f swapped; here every
\* input is fed by any output of its own type.
Wirings ==
  {<<<<>>, [a |-> wa, b |-> wb, c |-> wc, d |-> wd], [e |-> we, f |-> wf]>> :
     wa \in {"a", "b"}, wb \in {"a", "b"}, wc \in {"c"}, wd \in {"d"},
     we \in {"e", "f"}, wf \in {"e", "f"}}

\* The backend resolves the dictionaries of component k.
ChainInputs(k) == [n \in DOMAIN wiring[k] |-> store[k - 1][wiring[k][n]]]
ChainOutputs(k) ==
  [n \in Range(PipelineClasses[k].RETURNED_VALUES) |-> <<Artifact("out", n, k, PyNone)>>]

Launch ==
  /\ pc = "idle"
  /\ stage < Len(PipelineClasses)
  /\ DoEnter(PipelineClasses[stage + 1], ChainInputs(stage + 1), ChainOutputs(stage + 1))
  /\ UNCHANGED <<chainVars, compileVars>>

\* A component whose Do returned is complete: its outputs are published.
Publish ==
  /\ pc = "done"
  /\ store' = Append(store, output_dict)
  /\ stage' = stage + 1
  /\ pc' = "idle"
  /\ UNCHANGED <<exec, input_dict, output_dict, function_args, outputs, raised,
                 warnings, calls, pre, invocations, wiring, compileVars>>

ChainInit ==
  /\ exec = PipelineClasses[1]
  /\ DoInit
  /\ wiring \in Wirings
  /\ stage = 0
  /\ store = <<>>
  /\ CompileIdle

ChainNext == Launch \/ DoCall \/ DoFinish \/ Publish

SpecChain == ChainInit /\ [][ChainNext]_vars

(***************************************************************************)
(* component(func).  A function object carries its name, its module, the   *)
(* scopes it is defined in (outermost first) and whether its type hints    *)
(* can be classified.                                                      *)
(***************************************************************************)
MaxCallers == 2       \* calls of component(), which may interleave

Callers == 1..MaxCallers
FuncNames == {"f", "g"}
Modules == {"m1", "m2"}
Scopes ==
  {<<>>, <<"function">>, <<"class">>, <<"function", "class">>, <<"class", "function">>}
Funcs ==
  {[name |-> n, module |-> m, scope |-> sc, hints |-> h] :
     n \in FuncNames, m \in Modules, sc \in Scopes, h \in {"valid", "invalid"}}
NoFunc == [name |-> "", module |-> "", scope |-> <<>>, hints |-> ""]

\* func.__qualname__, as a list of tokens: an enclosing function adds
\* "<its name>.<locals>.", an enclosing class "<its name>.".
RECURSIVE ScopePrefix(_)
ScopePrefix(sc) ==
  IF sc = <<>> THEN <<>>
  ELSE (IF Head(sc) = "function" THEN <<"outer", ".", "<locals>", ".">> ELSE <<"Outer", ".">>)
       \o ScopePrefix(Tail(sc))
QualName(func) == ScopePrefix(func.scope) \o <<func.name>>

\* str.split('.') on a list of tokens: cur is the piece being read.
RECURSIVE SplitFrom(_, _)
SplitFrom(tokens, cur) ==
  IF tokens = <<>> THEN <<cur>>
  ELSE IF Head(tokens) = "." THEN <<cur>> \o SplitFrom(Tail(tokens), "")
  ELSE SplitFrom(Tail(tokens), cur \o Head(tokens))
Split(tokens) == SplitFrom(tokens, "")

\* six.PY2: the module is Python 3 source (it uses annotations).
PY2 == FALSE

\* Line 165: '<locals>' in func.__qualname__.split('.')
DefinedInLocals(func) == "<locals>" \in Range(Split(QualName(func)))

\* parse_typehint_component_function(func): the classification, or an error
\* when a type hint cannot be classified.
ParseTypehints(func) ==
  IF func.hints = "valid"
  THEN [err |-> NoError, inputs |-> {"a"}, outputs |-> {"e"},
        arg_formats |-> <<<<"a", ARTIFACT_VALUE>>>>, returned_values |-> <<"e">>]
  ELSE [err |-> Exc("ValueError", PyStr("unknown type hint annotation")),
        inputs |-> {}, outputs |-> {}, arg_formats |-> <<>>, returned_values |-> <<>>]

\* Lines 159-172: the checks that precede every construction.
CheckFunc(func) ==
  IF PY2 THEN Exc("EnvironmentError", PyStr("only supported in Python 3"))
  ELSE IF DefinedInLocals(func)
       THEN Exc("ValueError", PyStr("can only be applied to a function defined at the module level"))
       ELSE ParseTypehints(func).err

\* '%s_Executor' % func.__name__
ExecutorName(func) == func.name \o "_Executor"

\* Lines 192-203: type('%s_Executor' % func.__name__, (_FunctionExecutor,), {...});
\* id tells the class objects of different type() calls apart.
ExecutorClass(func, id) ==
  [id |-> id, name |-> ExecutorName(func), module |-> func.module,
   ARG_FORMATS |-> ParseTypehints(func).arg_formats, FUNCTION |-> func,
   RETURNED_VALUES |-> ParseTypehints(func).returned_values]

\* Lines 174-190 and 212-219: the component class that is returned.
ComponentClass(func, executor_class) ==
  [name |-> func.name, module |-> func.module,
   INPUTS |-> ParseTypehints(func).inputs, OUTPUTS |-> ParseTypehints(func).outputs,
   PARAMETERS |-> {}, EXECUTOR_SPEC |-> executor_class]

\* setattr that keeps an attribute the module already has.
SetAttrIfAbsent(mods, module, attr, value) ==
  IF attr \in DOMAIN mods[module] THEN mods
  ELSE [mods EXCEPT ![module] = [a \in DOMAIN @ \cup {attr} |-> IF a = attr THEN value ELSE @[a]]]

\* Lines 209-210: setattr(sys.modules[module], attr, value)
SetAttr(mods, module, attr, value) ==
  [mods EXCEPT ![module] = [a \in DOMAIN @ \cup {attr} |-> IF a = attr THEN value ELSE @[a]]]

\* The registration of lines 209-210 done before the checks of lines 159-172.
ComponentCallRegistersFirst(t, func) ==
  LET err == CheckFunc(func)
      cls == ExecutorClass(func, nextClass + 1)
  IN /\ cpc[t] = "idle"
     /\ cfunc' = [cfunc EXCEPT ![t] = func]
     /\ modules' = SetAttr(modules, func.module, ExecutorName(func), cls)
     /\ nextClass' = nextClass + 1
     /\ IF err # NoError
        THEN /\ cpc' = [cpc EXCEPT ![t] = "failed"]
             /\ cerror' = [cerror EXCEPT ![t] = err]
             /\ UNCHANGED cclass
        ELSE /\ cpc' = [cpc EXCEPT ![t] = "built"]
             /\ cclass' = [cclass EXCEPT ![t] = cls]
             /\ UNCHANGED cerror
     /\ UNCHANGED <<cresult, regLog>>

\* component(func) is called: lines 159-203.  A failed check raises; else the
\* spec class and the executor class are built.
ComponentCall(t, func) ==
  LET err == CheckFunc(func)
  IN /\ cpc[t] = "idle"
     /\ cfunc' = [cfunc EXCEPT ![t] = func]
     /\ IF err # NoError
        THEN /\ cpc' = [cpc EXCEPT ![t] = "failed"]
             /\ cerror' = [cerror EXCEPT ![t] = err]
             /\ UNCHANGED <<cclass, nextClass>>
        ELSE /\ cpc' = [cpc EXCEPT ![t] = "built"]
             /\ cclass' = [cclass EXCEPT ![t] = ExecutorClass(func, nextClass + 1)]
             /\ nextClass' = nextClass + 1
             /\ UNCHANGED cerror
     /\ UNCHANGED <<modules, cresult, regLog>>

\* Lines 205-210: the executor class is exposed in the function's module.
ComponentRegister(t) ==
  /\ cpc[t] = "built"
  /\ modules' = SetAttr(modules, cfunc[t].module, ExecutorName(cfunc[t]), cclass[t])
  /\ regLog' = Append(regLog, t)
  /\ cpc' = [cpc EXCEPT ![t] = "registered"]
  /\ UNCHANGED <<cfunc, cclass, cresult, cerror, nextClass>>

\* Lines 212-219: the component class is returned.
ComponentReturn(t) ==
  /\ cpc[t] = "registered"
  /\ cresult' = [cresult EXCEPT ![t] = ComponentClass(cfunc[t], cclass[t])]
  /\ cpc' = [cpc EXCEPT ![t] = "done"]
  /\ UNCHANGED <<modules, cfunc, cclass, cerror, regLog, nextClass>>

CompileInit ==
  /\ modules = [m \in Modules |-> <<>>]
  /\ cpc = [t \in Callers |-> "idle"]
  /\ cfunc = [t \in Callers |-> NoFunc]
  /\ cclass = [t \in Callers |-> NoClass]
  /\ cresult = [t \in Callers |-> NoClass]
  /\ cerror = [t \in Callers |-> NoError]
  /\ regLog = <<>>
  /\ nextClass = 0
  /\ exec = ExecClass(<<>>, "stub", <<>>)
  /\ DoInit
  /\ ChainIdle

Call == \E t \in Callers, func \in Funcs : ComponentCall(t, func) /\ UNCHANGED <<doVars, chainVars>>
Register == \E t \in Callers : ComponentRegister(t) /\ UNCHANGED <<doVars, chainVars>>
Return == \E t \in Callers : ComponentReturn(t) /\ UNCHANGED <<doVars, chainVars>>

CompileNext == Call \/ Register \/ Return

SpecCompile == CompileInit /\ [][CompileNext]_vars

(***************************************************************************)
(* Properties of Do (specification Spec).                                  *)
(***************************************************************************)
InputFormats == {INPUT_ARTIFACT, INPUT_URI, ARTIFACT_VALUE}
OutputFormats == {OUTPUT_ARTIFACT, OUTPUT_URI}

HasFirst(d, name) == name \in DOMAIN d /\ Len(d[name]) >= 1

\* Every format is one of the five, and every named entry has a first element.
KnownFormats == \A i \in DOMAIN exec.ARG_FORMATS : exec.ARG_FORMATS[i][2] \in ArgFormats
ArgsPresent ==
  \A i \in DOMAIN exec.ARG_FORMATS :
    LET name == exec.ARG_FORMATS[i][1]
        fmt == exec.ARG_FORMATS[i][2]
    IN /\ fmt \in InputFormats => HasFirst(pre.input_dict, name)
       /\ fmt \in OutputFormats => HasFirst(pre.output_dict, name)
ReturnedPresent == \A n \in Range(exec.RETURNED_VALUES) : HasFirst(pre.output_dict, n)

\* The argument the i-th (name, role) pair stands for.
ExpectedArg(i) ==
  LET name == exec.ARG_FORMATS[i][1]
      fmt == exec.ARG_FORMATS[i][2]
  IN CASE fmt = INPUT_ARTIFACT -> pre.input_dict[name][1]
       [] fmt = INPUT_URI -> pre.input_dict[name][1].uri
       [] fmt = OUTPUT_ARTIFACT -> pre.output_dict[name][1]
       [] fmt = OUTPUT_URI -> pre.output_dict[name][1].uri
       [] fmt = ARTIFACT_VALUE -> pre.input_dict[name][1].value
ExpectedArgs == [i \in 1..Len(exec.ARG_FORMATS) |-> ExpectedArg(i)]

\* C1: with known formats and a first element under every named entry, Do
\* resolves all arguments before it calls the function (nothing is called
\* while the list is built), and then calls it exactly once, positionally,
\* with one argument per (name, role) pair, the i-th resolved from the i-th.
C1_ArgumentsResolvedInOrder ==
  (invocations > 0 /\ KnownFormats /\ ArgsPresent) =>
    /\ pc = "call" => calls = <<>> /\ function_args = ExpectedArgs
    /\ pc # "call" =>
         /\ Len(calls) = 1
         /\ Len(calls[1].args) = Len(exec.ARG_FORMATS)
         /\ calls[1].args = ExpectedArgs

C1_Witness ==
  /\ pc = "done"
  /\ Len(calls) = 1
  /\ Len(exec.ARG_FORMATS) = 2
  /\ exec.ARG_FORMATS[1] = <<"f", OUTPUT_URI>>
  /\ exec.ARG_FORMATS[2] = <<"a", ARTIFACT_VALUE>>
  /\ Len(pre.input_dict["a"]) = 2

FunctionReturned == Len(calls) = 1 /\ calls[1].outcome.exc = NoError /\ pc # "returned"

\* C2: when the function returned a dict, every declared name that is a key
\* has its value in the value slot of output_dict[name][0]; every declared
\* name that is absent has a warning and its slot as before; Do completes.
C2_ReturnedMappingDistributed ==
  (FunctionReturned /\ IsDict(outputs) /\ ReturnedPresent) =>
    /\ pc = "done"
    /\ \A n \in Range(exec.RETURNED_VALUES) :
         IF n \in DOMAIN outputs.v
         THEN output_dict[n][1].value = outputs.v[n]
         ELSE /\ MissingOutputWarning(n) \in Range(warnings)
              /\ output_dict[n][1].value = pre.output_dict[n][1].value

C2_Witness ==
  /\ pc = "done"
  /\ exec.RETURNED_VALUES = <<"e", "f">>
  /\ IsDict(outputs)
  /\ DOMAIN outputs.v = {"f"}
  /\ output_dict["f"][1].value = StubValue("f")
  /\ MissingOutputWarning("e") \in Range(warnings)

\* C3: when the function returned a value that is neither None nor a dict,
\* Do completes without raising and leaves every output artifact as it was.
C3_NonMappingLeavesOutputs ==
  (FunctionReturned /\ outputs.t \notin {"dict", "NoneType"}) =>
    /\ pc = "done"
    /\ raised = NoError
    /\ output_dict = pre.output_dict

C3_Witness ==
  /\ pc = "done"
  /\ outputs = PyInt(7)
  /\ Len(exec.RETURNED_VALUES) = 2
  /\ ReturnedPresent

HasNotADictWarning == \E i \in DOMAIN warnings : warnings[i].kind = "not_a_dict"

\* C4: a returned value that is neither None nor a dict always records the
\* 'not a dict' warning, also when it is falsy and whatever is declared;
\* a returned None records none.
C4_NonMappingAlwaysWarned ==
  FunctionReturned =>
    /\ outputs.t \notin {"dict", "NoneType"} => HasNotADictWarning
    /\ outputs = PyNone => ~HasNotADictWarning

FunctionRaised == Len(calls) = 1 /\ calls[1].outcome.exc # NoError

C10_FrameOfDo ==
  invocations > 0 =>
    /\ input_dict = pre.input_dict
    /\ exec = pre.exec
    /\ DOMAIN output_dict = DOMAIN pre.output_dict
    /\ \A n \in DOMAIN output_dict :
         /\ Len(output_dict[n]) = Len(pre.output_dict[n])
         /\ \A i \in DOMAIN output_dict[n] :
              /\ output_dict[n][i].id = pre.output_dict[n][i].id
              /\ output_dict[n][i].uri = pre.output_dict[n][i].uri
              /\ output_dict[n][i].value # pre.output_dict[n][i].value =>
                   /\ i = 1
                   /\ n \in Range(exec.RETURNED_VALUES)
                   /\ IsDict(outputs)
                   /\ n \in DOMAIN outputs.v
                   /\ output_dict[n][i].value = outputs.v[n]

C10_Witness ==
  /\ pc = "done"
  /\ exec.RETURNED_VALUES = <<"e">>
  /\ IsDict(outputs)
  /\ DOMAIN outputs.v = {"e", "f"}
  /\ DOMAIN output_dict = {"e", "f"}
  /\ Len(output_dict["e"]) = 2
  /\ output_dict["e"][1].value = StubValue("e")
  /\ output_dict["e"][2].value = PyNone
  /\ output_dict["f"][1].value = PyNone

(***************************************************************************)
(* Properties of the pipeline (specification SpecChain).                   *)
(***************************************************************************)
\* The three functions called directly, one after the other, the values
\* handed over as the wiring says.
DirectA == injector(<<>>).ret.v
DirectArgsB == <<DirectA[wiring[2].a], DirectA[wiring[2].b], DirectA[wiring[2].c], DirectA[wiring[2].d]>>
DirectB == simple_component(DirectArgsB).ret.v
DirectArgsC == <<DirectB[wiring[3].e], DirectB[wiring[3].f]>>
DirectC == verify(DirectArgsC)

StraightWiring ==
  /\ wiring[2].a = "a" /\ wiring[2].b = "b"
  /\ wiring[3].e = "e" /\ wiring[3].f = "f"
SwappedWiring ==
  /\ wiring[2].a = "a" /\ wiring[2].b = "b"
  /\ wiring[3].e = "f" /\ wiring[3].f = "e"

Called(fn) == exec.FUNCTION = fn /\ Len(calls) = 1

\* C7: run through the adapters, simple_component and verify are called with
\* exactly the values the direct calls would hand them, for every wiring, and
\* verify ends as the direct call does; wired straight verify gets
\* (32.0, 220.0), with e and f swapped it gets (220.0, 32.0) and fails on it.
C7_ChainEqualsDirectCalls ==
  /\ Called("simple_component") => calls[1].args = DirectArgsB
  /\ Called("verify") =>
       /\ calls[1].args = DirectArgsC
       /\ calls[1].outcome = DirectC
       /\ StraightWiring =>
            /\ calls[1].args = <<PyFloat(32), PyFloat(220)>>
            /\ calls[1].outcome.exc = NoError
       /\ SwappedWiring =>
            /\ calls[1].args = <<PyFloat(220), PyFloat(32)>>
            /\ pc = "raised"
            /\ raised = Exc("AssertionError", PyTuple(<<PyFloat(220), PyFloat(32)>>))
  /\ stage >= 1 => \A n \in {"a", "b", "c", "d"} : store[1][n][1].value = DirectA[n]
  /\ stage >= 2 => \A n \in {"e", "f"} : store[2][n][1].value = DirectB[n]

C7_Witness ==
  /\ stage = 3
  /\ StraightWiring
  /\ Called("verify")
  /\ calls[1].args = <<PyFloat(32), PyFloat(220)>>
  /\ store[2]["e"][1].value = PyFloat(32)
  /\ store[2]["f"][1].value = PyFloat(220)

(***************************************************************************)
(* Properties of component() (specification SpecCompile).                  *)
(***************************************************************************)
DefinitionScopeError(e) ==
  e = Exc("ValueError", PyStr("can only be applied to a function defined at the module level"))

\* C5: component() of a function defined inside a function or a class body,
\* at any depth and whatever its type hints, fails with the definition-scope
\* error.
C5_NestedDefinitionFails ==
  \A t \in Callers :
    (cpc[t] # "idle" /\ cfunc[t].scope # <<>>) =>
      /\ cpc[t] = "failed"
      /\ DefinitionScopeError(cerror[t])

\* The callers whose registration is in regLog for module m and function
\* name n, as positions in regLog.
RegistrationsOf(m, n) ==
  {i \in DOMAIN regLog : cfunc[regLog[i]].module = m /\ cfunc[regLog[i]].name = n}
Latest(S) == CHOOSE i \in S : \A j \in S : j <= i

\* C8: the attribute n_Executor of module m is the executor class built by
\* the call that registered last for a function named n of module m, and is
\* absent when no call did; calls for other names or modules do not touch it.
C8_LastRegistrationWins ==
  \A m \in Modules, n \in FuncNames :
    LET regs == RegistrationsOf(m, n)
        attr == n \o "_Executor"
    IN IF regs = {}
       THEN attr \notin DOMAIN modules[m]
       ELSE /\ attr \in DOMAIN modules[m]
            /\ modules[m][attr] = cclass[regLog[Latest(regs)]]
            /\ modules[m][attr].FUNCTION = cfunc[regLog[Latest(regs)]]

C8_Witness ==
  /\ regLog = <<2, 1>>
  /\ cfunc[1] = cfunc[2]
  /\ cclass[1].id = 1
  /\ cclass[2].id = 2
  /\ cpc[1] = "done"
  /\ cpc[2] = "done"
  /\ modules[cfunc[1].module][cfunc[1].name \o "_Executor"] = cclass[1]

\* C9: a call that fails on the definition scope or on the type hints has
\* registered nothing and built nothing: the step in which it fails leaves
\* the modules as they were, it is not among the registrations, and it has
\* neither an executor class nor a component class.
C9_FailedCompileRegistersNothing ==
  /\ [](\A t \in Callers :
          cpc[t] = "failed" =>
            /\ cresult[t] = NoClass
            /\ cclass[t] = NoClass
            /\ t \notin Range(regLog)
            /\ \A m \in Modules : \A a \in DOMAIN modules[m] :
                 modules[m][a] \in {cclass[u] : u \in Range(regLog)})
  /\ [][\A t \in Callers :
          (cpc[t] # "failed" /\ cpc'[t] = "failed") => modules' = modules]_vars

C9_Witness ==
  /\ cpc[1] = "done"
  /\ cpc[2] = "failed"
  /\ cfunc[2].scope = <<>>
  /\ cfunc[2].hints = "invalid"
  /\ cfunc[2].name = cfunc[1].name
  /\ cfunc[2].module = cfunc[1].module
  /\ modules[cfunc[2].module][ExecutorName(cfunc[2])] = cclass[1]

====
